---- MODULE Spec2Model ----
(***************************************************************************)
(* Model of the pricing core of src/bot.py: the ApartmentParams record,    *)
(* the PriceCalculator coefficient tables, its construction-time seasonal  *)
(* coefficient and its calculate method.                                   *)
(*                                                                         *)
(* Numbers.  The program computes with Python floats written as short      *)
(* decimal literals.  The model computes with exact decimals: a number is  *)
(* a record [neg, mag, scale] of value (-1)^neg * mag * 10^(-scale), where *)
(* mag is a natural number held as a little-endian sequence of limbs in    *)
(* base LimbBase (model integers are 32 bits wide, a product of ten        *)
(* coefficients is not).  Every number is kept in canonical form, so two   *)
(* numbers are equal exactly when their records are equal.  The binary     *)
(* rounding error of the floats (about 1e-16 relative) is not modelled.    *)
(*                                                                         *)
(* Strings.  The module text is ASCII, so the Cyrillic literals of the     *)
(* source are written transliterated, letter for letter and keeping case   *)
(* ("centr" for the key at src/bot.py:32, "CENTR" for its upper-case       *)
(* spelling).                                                              *)
(***************************************************************************)
EXTENDS Integers, Sequences, FiniteSets, TLC

VARIABLES
    now_month,        \* datetime.now().month, the calendar month of the wall clock
    constructed,      \* whether `calculator = PriceCalculator()` has run
    season_coef,      \* PriceCalculator.season_coef
    construct_month,  \* the month that __init__ read (0 before construction)
    params,           \* the ApartmentParams record of the current request
    result            \* outcome of the last calculate call on params

vars == <<now_month, constructed, season_coef, construct_month, params, result>>

(***************************************************************************)
(* Exact decimal arithmetic.                                               *)
(***************************************************************************)
\* Three decimal digits to a limb.
LimbBase == 10 * 10 * 10

RECURSIVE NFromInt(_)
NFromInt(n) ==
    IF n = 0 THEN <<>> ELSE <<n % LimbBase>> \o NFromInt(n \div LimbBase)

RECURSIVE NNorm(_)
NNorm(m) ==
    IF m = <<>> THEN <<>>
    ELSE IF m[Len(m)] = 0 THEN NNorm(SubSeq(m, 1, Len(m) - 1))
    ELSE m

RECURSIVE NMulSmall(_, _, _)
NMulSmall(m, k, carry) ==
    IF m = <<>> THEN NFromInt(carry)
    ELSE LET t == Head(m) * k + carry
         IN  <<t % LimbBase>> \o NMulSmall(Tail(m), k, t \div LimbBase)

RECURSIVE NAdd(_, _, _)
NAdd(a, b, carry) ==
    IF a = <<>> /\ b = <<>> THEN NFromInt(carry)
    ELSE LET x == IF a = <<>> THEN 0 ELSE Head(a)
             y == IF b = <<>> THEN 0 ELSE Head(b)
             t == x + y + carry
         IN  <<t % LimbBase>>
                 \o NAdd(IF a = <<>> THEN a ELSE Tail(a),
                         IF b = <<>> THEN b ELSE Tail(b), t \div LimbBase)

RECURSIVE NMul(_, _)
NMul(a, b) ==
    IF a = <<>> \/ b = <<>> THEN <<>>
    ELSE IF Len(b) = 1 THEN NNorm(NMulSmall(a, b[1], 0))
    ELSE NNorm(NAdd(NMulSmall(a, Head(b), 0), <<0>> \o NMul(a, Tail(b)), 0))

\* Quotient and remainder of m by a small k > 0.
RECURSIVE NDivRem(_, _)
NDivRem(m, k) ==
    IF m = <<>> THEN [q |-> <<>>, r |-> 0]
    ELSE LET hi  == NDivRem(Tail(m), k)
             cur == hi.r * LimbBase + Head(m)
         IN  [q |-> NNorm(<<cur \div k>> \o hi.q), r |-> cur % k]

\* a < b, a = b or a > b on canonical naturals: -1, 0, 1.
RECURSIVE NCmpFrom(_, _, _)
NCmpFrom(a, b, i) ==
    IF i = 0 THEN 0
    ELSE IF a[i] < b[i] THEN -1
    ELSE IF a[i] > b[i] THEN 1
    ELSE NCmpFrom(a, b, i - 1)

NCmp(a, b) ==
    IF Len(a) < Len(b) THEN -1
    ELSE IF Len(a) > Len(b) THEN 1
    ELSE NCmpFrom(a, b, Len(a))

\* a - b for a >= b.
RECURSIVE NSub(_, _, _)
NSub(a, b, borrow) ==
    IF a = <<>> THEN <<>>
    ELSE LET y == (IF b = <<>> THEN 0 ELSE Head(b)) + borrow
             t == Head(a) - y
         IN  <<IF t < 0 THEN t + LimbBase ELSE t>>
                 \o NSub(Tail(a), IF b = <<>> THEN b ELSE Tail(b),
                         IF t < 0 THEN 1 ELSE 0)

RECURSIVE NPow10(_)
NPow10(n) == IF n = 0 THEN <<1>> ELSE NNorm(NMulSmall(NPow10(n - 1), 10, 0))

\* Canonical form: no trailing decimal zero while scale > 0; zero is +0 scale 0.
RECURSIVE Canon(_)
Canon(d) ==
    IF d.mag = <<>> THEN [neg |-> FALSE, mag |-> <<>>, scale |-> 0]
    ELSE IF d.scale > 0 /\ d.mag[1] % 10 = 0
         THEN Canon([d EXCEPT !.mag = NDivRem(d.mag, 10).q, !.scale = d.scale - 1])
    ELSE d

\* The decimal n * 10^(-s) of a model integer n.
Dec(n, s) ==
    Canon([neg |-> n < 0, mag |-> NFromInt(IF n < 0 THEN -n ELSE n), scale |-> s])

Zero == Dec(0, 0)
One == Dec(1, 0)

IsNeg(d) == d.neg
IsZero(d) == d.mag = <<>>

Mul(a, b) ==
    Canon([neg |-> a.neg # b.neg, mag |-> NMul(a.mag, b.mag),
           scale |-> a.scale + b.scale])

\* The magnitude of d written at scale s >= d.scale.
AtScale(d, s) == NMul(d.mag, NPow10(s - d.scale))

Add(a, b) ==
    LET s  == IF a.scale > b.scale THEN a.scale ELSE b.scale
        x  == AtScale(a, s)
        y  == AtScale(b, s)
        c  == NCmp(x, y)
    IN  IF a.neg = b.neg
        THEN Canon([neg |-> a.neg, mag |-> NNorm(NAdd(x, y, 0)), scale |-> s])
        ELSE IF c = 0 THEN Zero
        ELSE IF c > 0
             THEN Canon([neg |-> a.neg, mag |-> NNorm(NSub(x, y, 0)), scale |-> s])
        ELSE Canon([neg |-> b.neg, mag |-> NNorm(NSub(y, x, 0)), scale |-> s])

\* Decimal places kept by a quotient that does not terminate earlier.
DivDigits == 6

RECURSIVE NToInt(_)
NToInt(m) == IF m = <<>> THEN 0 ELSE Head(m) + LimbBase * NToInt(Tail(m))

\* a / b for a divisor b # 0 of magnitude below LimbBase^2, cut after
\* a.scale + DivDigits decimal places.
Div(a, b) ==
    LET num == NMul(a.mag, NPow10(b.scale + DivDigits))
        qr  == NDivRem(num, NToInt(b.mag))
    IN  Canon([neg |-> a.neg # b.neg, mag |-> qr.q, scale |-> a.scale + DivDigits])

\* round(d, n): the nearest decimal with n places, ties to the even neighbour.
\* The p = d.scale - n dropped digits are p \div 3 whole limbs and p % 3 digits
\* of the next one.
Round(d, n) ==
    IF d.scale <= n THEN d
    ELSE LET p    == d.scale - n
             a    == IF p \div 3 < Len(d.mag) THEN p \div 3 ELSE Len(d.mag)
             qr   == NDivRem(SubSeq(d.mag, a + 1, Len(d.mag)), NToInt(NPow10(p % 3)))
             low  == NNorm(SubSeq(d.mag, 1, a) \o <<qr.r>>)
             c    == NCmp(NNorm(NMulSmall(low, 2, 0)), NPow10(p))
             odd  == qr.q # <<>> /\ qr.q[1] % 2 = 1
             up   == c > 0 \/ (c = 0 /\ odd)
         IN  Canon([neg |-> d.neg,
                    mag |-> IF up THEN NNorm(NAdd(qr.q, <<1>>, 0)) ELSE qr.q,
                    scale |-> n])

(***************************************************************************)
(* PriceCalculator: constants and coefficient tables (values in            *)
(* hundredths, as the source writes them with two decimals).               *)
(***************************************************************************)
BASE_PRICE_PER_M2 == 110000

H(n) == Dec(n, 2)

COEF_DISTRICT ==
    "centr" :> H(132) @@ "primorye" :> H(125) @@ "kalarasha" :> H(111)
    @@ "zvezdnaya" :> H(104) @@ "uralskaya" :> H(96) @@ "barsovaya" :> H(92)
    @@ "grozneft" :> H(88) @@ "sortirovka" :> H(85) @@ "kroyanskoe" :> H(81)
    @@ "kadosh" :> H(86)

COEF_BUILD_YEAR ==
    "2020+" :> H(130) @@ "2010-2019" :> H(119) @@ "2000-2009" :> H(110)
    @@ "1990-1999" :> H(103) @@ "1980-1989" :> H(97) @@ "1970-1979" :> H(91)
    @@ "1960-1969" :> H(86) @@ "1950-1959" :> H(82) @@ "do 1950" :> H(76)

COEF_REPAIR ==
    "evro" :> H(126) @@ "kosmetika" :> H(105) @@ "predchistovaya" :> H(86)
    @@ "net" :> H(72)

COEF_HOUSE_TYPE ==
    "monolit-kirpich" :> H(119) @@ "monolitnyy" :> H(115) @@ "kirpich" :> H(107)
    @@ "blochnyy" :> H(102) @@ "panelnyy" :> H(94)

COEF_HEATING ==
    "individ_gaz" :> H(111) @@ "avtonomnoe" :> H(106) @@ "centralnye" :> H(100)

COEF_INFRASTRUCTURE ==
    "more_shag" :> H(16) @@ "shkola_shag" :> H(7) @@ "sadik_shag" :> H(6)
    @@ "bolnica_shag" :> H(4) @@ "magaziny_shag" :> H(3)
    @@ "transport_10min" :> H(4) @@ "probki" :> H(-12)
    @@ "turisticheskiy" :> H(8) @@ "spalnyy" :> H(5) @@ "neftezavod" :> H(-14)

COEF_VIEW ==
    "na more" :> H(107) @@ "na gorod" :> H(103) @@ "standartnyy" :> H(100)

\* Faulty variant: a missing key yields 0 instead of the default.
Get_zero(table, key, default) ==
    IF key \in DOMAIN table THEN table[key] ELSE Zero

\* dict.get(key, default)
Get(table, key, default) ==
    IF key \in DOMAIN table THEN table[key] ELSE default

\* str.lower() on the strings the model draws: the spellings with upper-case
\* letters map to their lower-case form, every other string is unchanged.
Lowered ==
    "CENTR" :> "centr" @@ "Centr" :> "centr" @@ "Kadosh" :> "kadosh"
    @@ "EVRO" :> "evro" @@ "Net" :> "net"
    @@ "MONOLITNYY" :> "monolitnyy" @@ "Kirpich" :> "kirpich"
    @@ "INDIVID_GAZ" :> "individ_gaz" @@ "Avtonomnoe" :> "avtonomnoe"
    @@ "NA MORE" :> "na more" @@ "Na gorod" :> "na gorod"
    @@ "MARS" :> "mars" @@ "MORE_SHAG" :> "more_shag"

lower(s) == IF s \in DOMAIN Lowered THEN Lowered[s] ELSE s

_get_season_coefficient(month) ==
    IF 5 <= month /\ month <= 9 THEN H(110)
    ELSE IF 11 <= month /\ month <= 2 THEN H(95)
    ELSE H(100)

\* Faulty variant: the boundaries are upper-inclusive (2020 falls in 2010-2019, ...).
_get_year_category_upper(year) ==
    IF year > 2020 THEN "2020+"
    ELSE IF 2010 < year /\ year <= 2020 THEN "2010-2019"
    ELSE IF 2000 < year /\ year <= 2010 THEN "2000-2009"
    ELSE IF 1990 < year /\ year <= 2000 THEN "1990-1999"
    ELSE IF 1980 < year /\ year <= 1990 THEN "1980-1989"
    ELSE IF 1970 < year /\ year <= 1980 THEN "1970-1979"
    ELSE IF 1960 < year /\ year <= 1970 THEN "1960-1969"
    ELSE IF 1950 < year /\ year <= 1960 THEN "1950-1959"
    ELSE "do 1950"

_get_year_category(year) ==
    IF year >= 2020 THEN "2020+"
    ELSE IF 2010 <= year /\ year < 2020 THEN "2010-2019"
    ELSE IF 2000 <= year /\ year < 2010 THEN "2000-2009"
    ELSE IF 1990 <= year /\ year < 2000 THEN "1990-1999"
    ELSE IF 1980 <= year /\ year < 1990 THEN "1980-1989"
    ELSE IF 1970 <= year /\ year < 1980 THEN "1970-1979"
    ELSE IF 1960 <= year /\ year < 1970 THEN "1960-1969"
    ELSE IF 1950 <= year /\ year < 1960 THEN "1950-1959"
    ELSE "do 1950"

floor_num_coef(floor) ==
    IF floor = 1 THEN H(85)
    ELSE IF floor = 2 THEN H(108)
    ELSE IF floor = 3 THEN H(112)
    ELSE IF floor = 4 THEN H(105)
    ELSE IF floor = 5 THEN H(102)
    ELSE H(106)

\* Faulty variant: the top-floor tests come before the ground-floor test.
position_coef_top_first(floor, total_floors) ==
    IF floor = total_floors THEN H(95)
    ELSE IF floor = total_floors - 1 THEN H(105)
    ELSE IF floor = 1 THEN H(90)
    ELSE H(115)

position_coef(floor, total_floors) ==
    IF floor = 1 THEN H(90)
    ELSE IF floor = total_floors THEN H(95)
    ELSE IF floor = total_floors - 1 THEN H(105)
    ELSE H(115)

\* Faulty variant: a building of ten floors still counts as 6-9.
height_coef_ten_low(total_floors) ==
    IF total_floors <= 2 THEN H(92)
    ELSE IF 3 <= total_floors /\ total_floors <= 5 THEN H(110)
    ELSE IF 6 <= total_floors /\ total_floors <= 10 THEN H(106)
    ELSE H(114)

height_coef(total_floors) ==
    IF total_floors <= 2 THEN H(92)
    ELSE IF 3 <= total_floors /\ total_floors <= 5 THEN H(110)
    ELSE IF 6 <= total_floors /\ total_floors <= 9 THEN H(106)
    ELSE H(114)

_calculate_floor_coefficient(floor, total_floors) ==
    Add(Add(Mul(floor_num_coef(floor), Dec(5, 1)),
            Mul(position_coef(floor, total_floors), Dec(3, 1))),
        Mul(height_coef(total_floors), Dec(2, 1)))

\* Faulty variant: a tag met before in the list is skipped.
RECURSIVE infra_loop_dedup(_, _)
infra_loop_dedup(infra_coef, infrastructure) ==
    IF infrastructure = <<>> THEN infra_coef
    ELSE LET n     == Len(infrastructure)
             infra == infrastructure[n]
             rest  == SubSeq(infrastructure, 1, n - 1)
             seen  == \E i \in 1..(n - 1) : infrastructure[i] = infra
             sofar == infra_loop_dedup(infra_coef, rest)
         IN  IF infra \in DOMAIN COEF_INFRASTRUCTURE /\ ~seen
             THEN Add(sofar, COEF_INFRASTRUCTURE[infra])
             ELSE sofar

\* The loop of lines 151-154 over the infrastructure list, in list order.
RECURSIVE infra_loop(_, _)
infra_loop(infra_coef, infrastructure) ==
    IF infrastructure = <<>> THEN infra_coef
    ELSE LET infra == Head(infrastructure)
         IN  infra_loop(IF infra \in DOMAIN COEF_INFRASTRUCTURE
                        THEN Add(infra_coef, COEF_INFRASTRUCTURE[infra])
                        ELSE infra_coef,
                        Tail(infrastructure))

\* Faulty variant: the branches of the conditional expression are swapped.
balcony_of_swapped(has_balcony) == IF has_balcony THEN One ELSE H(106)

balcony_of(has_balcony) == IF has_balcony THEN H(106) ELSE One

\* Faulty variant: the discount is taken off the coefficient instead of scaling it.
urgency_step_subtract(total_coefficient, urgency) ==
    IF urgency THEN Add(total_coefficient, H(-10)) ELSE total_coefficient

urgency_step(total_coefficient, urgency) ==
    IF urgency THEN Mul(total_coefficient, H(90)) ELSE total_coefficient

\* Faulty variant: only a zero area is rejected.
area_invalid_zero_only(area) == IsZero(area)

area_invalid(area) == IsNeg(area) \/ IsZero(area)

\* PriceCalculator.calculate on a calculator whose season_coef is season:
\* the ValueError, or the returned dictionary.  The unrounded total
\* coefficient and final price are kept beside the returned fields.
calculate(season, p) ==
    IF area_invalid(p.area)
    THEN [status |-> "ValueError"]
    ELSE LET base_price      == Mul(Dec(BASE_PRICE_PER_M2, 0), p.area)
             district_coef   == Get(COEF_DISTRICT, lower(p.district), One)
             year_category   == _get_year_category(p.build_year)
             year_coef       == Get(COEF_BUILD_YEAR, year_category, One)
             repair_coef     == Get(COEF_REPAIR, lower(p.repair), One)
             house_type_coef == Get(COEF_HOUSE_TYPE, lower(p.house_type), One)
             floor_coef      == _calculate_floor_coefficient(p.floor, p.total_floors)
             infra_coef      == infra_loop(One, p.infrastructure)
             balcony_coef    == balcony_of(p.has_balcony)
             heating_coef    == Get(COEF_HEATING, lower(p.heating), One)
             view_coef       == Get(COEF_VIEW, lower(p.view), One)
             product         ==
                 Mul(Mul(Mul(Mul(Mul(Mul(Mul(Mul(Mul(district_coef, year_coef),
                     repair_coef), house_type_coef), floor_coef), infra_coef),
                     balcony_coef), heating_coef), view_coef), season)
             total_coefficient == urgency_step(product, p.urgency)
             final_price     == Mul(base_price, total_coefficient)
             price_per_m2    == Div(final_price, p.area)
         IN  [status            |-> "ok",
              price_total       |-> Round(final_price, 2),
              price_per_m2      |-> Round(price_per_m2, 2),
              base_price        |-> Round(base_price, 2),
              total_coefficient |-> Round(total_coefficient, 3),
              price_breakdown   |->
                  [district       |-> Round(district_coef, 3),
                   year           |-> Round(year_coef, 3),
                   repair         |-> Round(repair_coef, 3),
                   house_type     |-> Round(house_type_coef, 3),
                   floor          |-> Round(floor_coef, 3),
                   infrastructure |-> Round(infra_coef, 3),
                   balcony        |-> Round(balcony_coef, 3),
                   heating        |-> Round(heating_coef, 3),
                   view           |-> Round(view_coef, 3),
                   season         |-> Round(season, 3)],
              raw_total_coefficient |-> total_coefficient,
              raw_final_price       |-> final_price]

(***************************************************************************)
(* The inputs the model draws.                                             *)
(***************************************************************************)
YearLo == 1945
YearHi == 2025
MaxFloor == 7
MaxTotal == 11
MaxTags == 3
MaxRepeat == 6

\* The request of the /help text (src/bot.py:250-261).
Example ==
    [area |-> Dec(450, 1), district |-> "centr", build_year |-> 2018,
     house_type |-> "monolitnyy", repair |-> "evro", floor |-> 5,
     total_floors |-> 10, has_balcony |-> TRUE, heating |-> "individ_gaz",
     infrastructure |-> <<"more_shag", "shkola_shag">>, view |-> "na more",
     urgency |-> FALSE]

\* A request none of whose category strings is a table key.
Neutral ==
    [area |-> Dec(305, 1), district |-> "mars", build_year |-> 1985,
     house_type |-> "igloo", repair |-> "MARS", floor |-> 3,
     total_floors |-> 9, has_balcony |-> FALSE, heating |-> "",
     infrastructure |-> <<>>, view |-> "na more ",
     urgency |-> FALSE]

Bases == {Example, Neutral}

\* The five fields looked up through lower() in a table, and their tables.
CategoryFields == {"district", "repair", "house_type", "heating", "view"}

TableOf(f) ==
    CASE f = "district" -> COEF_DISTRICT
      [] f = "repair" -> COEF_REPAIR
      [] f = "house_type" -> COEF_HOUSE_TYPE
      [] f = "heating" -> COEF_HEATING
      [] f = "view" -> COEF_VIEW

\* Strings put in the place of a category value: unknown words in both cases,
\* the empty string, and a key of the repair table that no other table has.
Replacements == {"mars", "MARS", "", "evro"}

\* The replacements calculate does not find in the table of field f.
Unrecognized(f) == {u \in Replacements : lower(u) \notin DOMAIN TableOf(f)}

PositiveAreas == {Dec(450, 1), Dec(305, 1), Dec(5, 1), Dec(12075, 2)}
BadAreas == {Zero, Dec(-5, 1), Dec(-450, 1)}

CategoryInputs ==
    {[Example EXCEPT !.district = d, !.repair = r, !.house_type = h,
                     !.heating = g, !.view = v, !.urgency = u] :
        d \in {"CENTR", "kadosh", "mars"}, r \in {"evro", "Net", "MARS"},
        h \in {"monolitnyy", "Kirpich", "igloo"},
        g \in {"individ_gaz", "Avtonomnoe", ""},
        v \in {"na more", "Na gorod", "na more "}, u \in BOOLEAN}

AreaInputs ==
    {[b EXCEPT !.area = a, !.urgency = u, !.has_balcony = c] :
        b \in Bases, a \in PositiveAreas, u \in BOOLEAN, c \in BOOLEAN}

YearInputs ==
    {[b EXCEPT !.build_year = y] : b \in Bases, y \in YearLo..YearHi}

FloorInputs ==
    {[b EXCEPT !.floor = f, !.total_floors = t] :
        b \in Bases, f \in 1..MaxFloor, t \in 1..MaxTotal}

\* One build year in each bucket, for the neutral request on every floor.
BucketYears == {1949, 1950, 1969, 1970, 1985, 1999, 2000, 2019, 2020}

NeutralInputs ==
    {[Neutral EXCEPT !.build_year = y, !.floor = f, !.total_floors = t] :
        y \in BucketYears, f \in 1..MaxFloor, t \in 1..MaxTotal}

Tags == {"more_shag", "shkola_shag", "probki", "neftezavod", "MORE_SHAG"}

RECURSIVE SeqsUpTo(_, _)
SeqsUpTo(S, n) ==
    IF n = 0 THEN {<<>>}
    ELSE LET shorter == SeqsUpTo(S, n - 1)
         IN  shorter \cup {Append(q, x) : q \in shorter, x \in S}

RECURSIVE Repeat(_, _)
Repeat(x, n) == IF n = 0 THEN <<>> ELSE <<x>> \o Repeat(x, n - 1)

\* Every list of at most MaxTags tags, and the lists of only negative tags
\* long enough to bring the infrastructure coefficient to zero and below.
TagLists ==
    SeqsUpTo(Tags, MaxTags)
    \cup {Repeat("neftezavod", a) \o Repeat("probki", b) :
             a \in 0..MaxRepeat, b \in 0..MaxRepeat}

InfraInputs == {[b EXCEPT !.infrastructure = l] : b \in Bases, l \in TagLists}

ValidInputs ==
    CategoryInputs \cup AreaInputs \cup YearInputs \cup FloorInputs
    \cup NeutralInputs \cup InfraInputs

\* Every valid input, and each base input with a non-positive area instead.
Inputs ==
    ValidInputs
    \cup {[q EXCEPT !.area = a] :
             q \in CategoryInputs \cup AreaInputs, a \in BadAreas}

\* The requests of the long-running process.
Requests ==
    {Example, Neutral, [Example EXCEPT !.urgency = TRUE],
     [Example EXCEPT !.area = Zero], [Neutral EXCEPT !.area = Dec(-5, 1)]}

(***************************************************************************)
(* The process: construction at start-up (src/bot.py:208), the wall clock, *)
(* and calculate calls.                                                    *)
(***************************************************************************)
NoResult == [status |-> "none"]

InitWith(M, S) ==
    /\ now_month \in M
    /\ constructed = FALSE
    /\ season_coef = Zero
    /\ construct_month = 0
    /\ params \in S
    /\ result = NoResult

Init == InitWith(1..12, Requests)

\* A month of each branch of _get_season_coefficient.
CalcMonths == {4, 7, 12}

InitCalc == InitWith(CalcMonths, Inputs)

\* calculator = PriceCalculator(): __init__ reads the clock once.
Construct ==
    /\ ~constructed
    /\ constructed' = TRUE
    /\ construct_month' = now_month
    /\ season_coef' = _get_season_coefficient(now_month)
    /\ UNCHANGED <<now_month, params, result>>

\* The calendar moves on to the next month.
Tick ==
    /\ now_month' = (now_month % 12) + 1
    /\ UNCHANGED <<constructed, season_coef, construct_month, params, result>>

\* The caller builds the next ApartmentParams record.
NewRequest ==
    /\ \E p \in Requests : params' = p
    /\ result' = NoResult
    /\ UNCHANGED <<now_month, constructed, season_coef, construct_month>>

\* Faulty variant: calculate recomputes the seasonal coefficient from the clock.
season_coef_recomputed == _get_season_coefficient(now_month)

\* self.season_coef as calculate reads it (src/bot.py:170, 194).
self_season_coef == season_coef

\* calculator.calculate(params)
Calculate ==
    /\ constructed
    /\ result' = calculate(self_season_coef, params)
    /\ UNCHANGED <<now_month, constructed, season_coef, construct_month, params>>

Next == Construct \/ Tick \/ NewRequest \/ Calculate

Spec == Init /\ [][Next]_vars

\* One calculator serving one request drawn from Inputs.
NextCalc == Construct \/ Calculate

SpecCalc == InitCalc /\ [][NextCalc]_vars
(***************************************************************************)
(* Properties.                                                             *)
(***************************************************************************)
Ok == result.status = "ok"

Half == Dec(5, 1)

Entry(r, f) == r.price_breakdown[f]

BreakdownFields ==
    {"district", "year", "repair", "house_type", "floor", "infrastructure",
     "balcony", "heating", "view", "season"}

\* The seasonal coefficient by calendar month as the documentation states it.
SeasonByMonth(m) ==
    IF m \in 5..9 THEN H(110)
    ELSE IF m \in {11, 12, 1, 2} THEN H(95)
    ELSE H(100)

\* C1: a calculator constructed in month m has seasonal coefficient 1.10 for
\* m in 5..9, 0.95 for m in {11, 12, 1, 2} and 1.00 for m in {3, 4, 10}.
C1_SeasonByMonth ==
    constructed => season_coef = SeasonByMonth(construct_month)

\* C2: a call with area <= 0 ends in the ValueError and returns nothing,
\* whatever the other fields are; a call with area > 0 never does.
C2_AreaValidation ==
    result.status # "none" =>
        IF params.area.neg \/ params.area.mag = <<>>
        THEN result = [status |-> "ValueError"]
        ELSE result.status = "ok"

C2_Witness ==
    /\ result.status = "ValueError"
    /\ params.area = Zero
    /\ params.district = "kadosh"
    /\ params.urgency

\* The inputs of C3: no category string is a table key once lower-cased, no
\* balcony, no infrastructure tag, no urgency.
NeutralCase(p) ==
    /\ \A f \in CategoryFields : lower(p[f]) \notin DOMAIN TableOf(f)
    /\ ~p.has_balcony
    /\ p.infrastructure = <<>>
    /\ ~p.urgency

\* C3 as stated: on a neutral input the final price is
\* base_rate * area * seasonal_coefficient, for every build_year and floor.
C3_NeutralPriceOriginal ==
    (Ok /\ NeutralCase(params)) =>
        result.raw_final_price
            = Mul(Mul(Dec(BASE_PRICE_PER_M2, 0), params.area), season_coef)

\* C3 amended: on a neutral input the final price is base_rate * area *
\* year_coef * floor_coef * seasonal_coefficient, where year_coef is the table
\* value of build_year's bucket and floor_coef the blended floor coefficient;
\* the district, repair, house type, heating, view, balcony and infrastructure
\* coefficients are 1.0.
C3_NeutralPrice ==
    (Ok /\ NeutralCase(params)) =>
        LET expected ==
                Mul(Mul(Mul(Mul(Dec(BASE_PRICE_PER_M2, 0), params.area),
                    COEF_BUILD_YEAR[_get_year_category(params.build_year)]),
                    _calculate_floor_coefficient(params.floor, params.total_floors)),
                    season_coef)
        IN  /\ result.raw_final_price = expected
            /\ result.price_total = Round(expected, 2)
            /\ \A f \in CategoryFields \cup {"balcony", "infrastructure"} :
                   Entry(result, f) = One

C3_Witness ==
    /\ Ok
    /\ NeutralCase(params)
    /\ params.build_year = 1970
    /\ params.floor = 2
    /\ params.total_floors = 2
    /\ Entry(result, "year") = H(91)

\* C4 as stated: the example request under seasonal coefficient 1.00 has
\* base price 4,950,000, floor coefficient 1.037 and total coefficient 3.193.
C4_ExampleOriginal ==
    (Ok /\ params = Example /\ season_coef = One) =>
        /\ result.base_price = Dec(4950000, 0)
        /\ Entry(result, "floor") = Dec(1037, 3)
        /\ result.total_coefficient = Dec(3193, 3)

\* C4 amended: the example request under seasonal coefficient 1.00 has base
\* price 4,950,000, floor coefficient 1.02*0.5 + 1.15*0.3 + 1.14*0.2 = 1.083
\* and a total coefficient, the product of 1.32, 1.19, 1.26, 1.15, 1.083,
\* 1.23, 1.06, 1.11, 1.07 and 1.00, of 3.817 to three places.
C4_Example ==
    (Ok /\ params = Example /\ season_coef = One) =>
        /\ result.base_price = Dec(4950000, 0)
        /\ Entry(result, "floor") = Dec(1083, 3)
        /\ Entry(result, "floor")
               = Add(Add(Mul(H(102), Half), Mul(H(115), Dec(3, 1))),
                     Mul(H(114), Dec(2, 1)))
        /\ result.raw_total_coefficient
               = Mul(Mul(Mul(Mul(Mul(Mul(Mul(Mul(Mul(H(132), H(119)), H(126)),
                     H(115)), Dec(1083, 3)), H(123)), H(106)), H(111)), H(107)),
                     H(100))
        /\ result.total_coefficient = Dec(3817, 3)

C4_Witness ==
    /\ Ok
    /\ params = Example
    /\ season_coef = One
    /\ result.price_total = Dec(1889472898, 2)

\* C5: two valid inputs that differ only in urgency have unrounded total
\* coefficients in the ratio 0.90 (urgent to not urgent), and the same
\* base_price and coefficient breakdown.
C5_Urgency ==
    Ok =>
        LET other  == calculate(season_coef, [params EXCEPT !.urgency = ~@])
            urgent == IF params.urgency THEN result ELSE other
            calm   == IF params.urgency THEN other ELSE result
        IN  /\ other.status = "ok"
            /\ urgent.raw_total_coefficient
                   = Mul(H(90), calm.raw_total_coefficient)
            /\ urgent.base_price = calm.base_price
            /\ urgent.price_breakdown = calm.price_breakdown

C5_Witness ==
    /\ Ok
    /\ params.urgency
    /\ params.district = "kadosh"
    /\ params.area = Dec(450, 1)
    /\ ~IsZero(result.raw_total_coefficient)

\* C6: for each of district, repair, house_type, heating and view, putting in
\* its place a string whose lower-cased form is no key of its table makes that
\* entry of the breakdown 1.0, leaves every other entry as it was, and raises
\* no error.
C6_UnrecognizedCategory ==
    Ok =>
        \A f \in CategoryFields :
            \A u \in Unrecognized(f) :
                LET r == calculate(season_coef, [params EXCEPT ![f] = u])
                IN  /\ r.status = "ok"
                    /\ Entry(r, f) = One
                    /\ \A g \in BreakdownFields \ {f} :
                           Entry(r, g) = Entry(result, g)

C6_Witness ==
    /\ Ok
    /\ params.district = "CENTR"
    /\ params.repair = "Net"
    /\ params.house_type = "Kirpich"
    /\ params.heating = "Avtonomnoe"
    /\ params.view = "Na gorod"
    /\ Entry(result, "district") = H(132)
    /\ Entry(result, "view") = H(103)

RECURSIVE SumDeltas(_, _)
\* The sum over the table keys in `keys` of (occurrences in l) * delta.
SumDeltas(keys, l) ==
    IF keys = {} THEN Zero
    ELSE LET k == CHOOSE x \in keys : TRUE
             n == Cardinality({i \in DOMAIN l : l[i] = k})
         IN  Add(Mul(Dec(n, 0), COEF_INFRASTRUCTURE[k]),
                 SumDeltas(keys \ {k}, l))

Swap(l, i) == [l EXCEPT ![i] = l[i + 1], ![i + 1] = l[i]]

\* C7: the infrastructure coefficient is 1.0 plus the sum of the deltas of
\* the occurrences of table keys in the list: duplicates count each time,
\* other tags count nothing, there is no clamp, exchanging two neighbours of
\* the list changes nothing, and the two tags of the example give 1.23.
C7_Infrastructure ==
    Ok =>
        LET l == params.infrastructure
        IN  /\ Entry(result, "infrastructure")
                   = Round(Add(One, SumDeltas(DOMAIN COEF_INFRASTRUCTURE, l)), 3)
            /\ \A i \in 1..(Len(l) - 1) :
                   Entry(calculate(season_coef,
                                   [params EXCEPT !.infrastructure = Swap(l, i)]),
                         "infrastructure")
                       = Entry(result, "infrastructure")
            /\ (l \in {<<"more_shag", "shkola_shag">>, <<"shkola_shag", "more_shag">>}
                   => Entry(result, "infrastructure") = H(123))

C7_Witness ==
    /\ Ok
    /\ params.infrastructure = <<"neftezavod", "MORE_SHAG", "neftezavod">>
    /\ Entry(result, "infrastructure") = H(72)

\* The position component as C8 states it.
PositionByClaim(floor, total_floors) ==
    IF floor = 1 THEN H(90)
    ELSE IF floor = total_floors THEN H(95)
    ELSE IF floor = total_floors - 1 THEN H(105)
    ELSE H(115)

\* C8: the position component is 0.90 on floor 1 of any building, else 0.95
\* on the top floor, 1.05 on the floor below it and 1.15 elsewhere (also for
\* floor > total_floors); the floor entry is the blend with that component.
C8_Position ==
    Ok =>
        LET f == params.floor
            t == params.total_floors
        IN  /\ position_coef(f, t) = PositionByClaim(f, t)
            /\ (f = 1 => position_coef(f, t) = H(90))
            /\ Entry(result, "floor")
                   = Round(Add(Add(Mul(floor_num_coef(f), Half),
                                   Mul(PositionByClaim(f, t), Dec(3, 1))),
                               Mul(height_coef(t), Dec(2, 1))), 3)

C8_Witness ==
    /\ Ok
    /\ params.floor = 1
    /\ params.total_floors = 1
    /\ Entry(result, "floor") = Dec(879, 3)

\* C9: once constructed, the calculator's seasonal coefficient is the one of
\* the month of construction whatever calls and month changes follow, and
\* every result is computed with it, not with the current month's.
C9_SeasonFixed ==
    constructed =>
        LET fixed == _get_season_coefficient(construct_month)
        IN  /\ season_coef = fixed
            /\ Ok => /\ Entry(result, "season") = Round(fixed, 3)
                     /\ result = calculate(fixed, params)

C9_Witness ==
    /\ constructed
    /\ Ok
    /\ construct_month = 9
    /\ now_month = 3
    /\ _get_season_coefficient(now_month) # season_coef
    /\ Entry(result, "season") = H(110)

\* The year ranges of C10, lower-inclusive.
InBucket(name, y) ==
    CASE name = "2020+" -> y >= 2020
      [] name = "2010-2019" -> 2010 <= y /\ y <= 2019
      [] name = "2000-2009" -> 2000 <= y /\ y <= 2009
      [] name = "1990-1999" -> 1990 <= y /\ y <= 1999
      [] name = "1980-1989" -> 1980 <= y /\ y <= 1989
      [] name = "1970-1979" -> 1970 <= y /\ y <= 1979
      [] name = "1960-1969" -> 1960 <= y /\ y <= 1969
      [] name = "1950-1959" -> 1950 <= y /\ y <= 1959
      [] name = "do 1950" -> y < 1950

BucketRank ==
    "do 1950" :> 0 @@ "1950-1959" :> 1 @@ "1960-1969" :> 2 @@ "1970-1979" :> 3
    @@ "1980-1989" :> 4 @@ "1990-1999" :> 5 @@ "2000-2009" :> 6
    @@ "2010-2019" :> 7 @@ "2020+" :> 8

\* C10: build_year lies in exactly one of the nine ranges, _get_year_category
\* returns that one, the bucket does not decrease from one year to the next,
\* and the name is a table key, so the year coefficient is a table value and
\* never the 1.0 default.
C10_YearBucket ==
    Ok =>
        LET y   == params.build_year
            cat == _get_year_category(y)
        IN  /\ Cardinality({n \in DOMAIN COEF_BUILD_YEAR : InBucket(n, y)}) = 1
            /\ cat \in DOMAIN COEF_BUILD_YEAR
            /\ InBucket(cat, y)
            /\ BucketRank[cat] <= BucketRank[_get_year_category(y + 1)]
            /\ Entry(result, "year") = COEF_BUILD_YEAR[cat]
            /\ Entry(result, "year")
                   \in {H(130), H(119), H(110), H(103), H(97), H(91), H(86),
                        H(82), H(76)}
            /\ Entry(result, "year") # One

C10_Witness ==
    /\ Ok
    /\ params.build_year = 2020
    /\ Entry(result, "year") = H(130)
====
